---------------------------- MODULE Spec2Model ----------------------------
(***************************************************************************)
(* Model of the input coercion functions of `impl Input for PyAny`         *)
(* (src/input/input_python.rs) and of the rendering of a ValidationError   *)
(* (src/errors/validation_exception.rs).                                   *)
(*                                                                         *)
(* Host values are records tagged by `kind`, the Python type of the value. *)
(* Text is a sequence of one-character strings, so that formatting and     *)
(* parsing are computed character by character.                            *)
(* An integer is n + wraps * 2^64 with n a small number: it fits a signed  *)
(* 64-bit integer exactly when wraps = 0.  A float is h/2 + wraps * 2^64.  *)
(***************************************************************************)
EXTENDS Integers, Sequences, FiniteSets, TLC

VARIABLES
    op,          \* name of the last operation called ("none" before any call)
    input,       \* the value it was called on
    flag,        \* try_instance of the last lax_dict call
    out,         \* the ValResult it returned
    reflections, \* instance_as_dict runs during the last call
    calls,       \* try_instance of every lax_dict frame of the last call
    line_errors, \* ValidationError.line_errors
    report,      \* result of ValidationError::display
    text,        \* the echoed value text given to truncate_input_value!
    written      \* what truncate_input_value! wrote, or a panic

vars == <<op, input, flag, out, reflections, calls, line_errors, report, text, written>>

(***************************************************************************)
(* Bounds of the model.                                                    *)
(***************************************************************************)
MaxSmall == 2    \* small integers range over -MaxSmall..MaxSmall
MaxItems == 2    \* items of a dict / mapping, attributes of an instance
MaxElems == 1    \* elements of a list, tuple, set or frozenset

(***************************************************************************)
(* Host values.                                                            *)
(***************************************************************************)
NoneVal == [kind |-> "None"]
BoolVal(b) == [kind |-> "Bool", b |-> b]
IntVal(n, w) == [kind |-> "Int", n |-> n, wraps |-> w]
FloatVal(h, w) == [kind |-> "Float", h |-> h, wraps |-> w]
DecimalVal(h) == [kind |-> "Decimal", h |-> h]
\* utf8 = FALSE: a str holding a lone surrogate, which has no UTF-8 encoding
StrVal(s, utf8) == [kind |-> "Str", s |-> s, utf8 |-> utf8]
\* utf8 = FALSE: the bytes are not valid UTF-8; s is the decoded text otherwise
BytesVal(s, utf8) == [kind |-> "Bytes", s |-> s, utf8 |-> utf8]
DictVal(items) == [kind |-> "Dict", items |-> items]
SeqVal(kind, elems) == [kind |-> kind, elems |-> elems]

SmallInts == (-MaxSmall..MaxSmall) \cup {42}
Halves == {-1, 0, 3, 84, 85}     \* -0.5, 0.0, 1.5, 42.0, 42.5

Texts == { <<>>, <<"4","2">>, <<"4","2",".","0">>, <<"1",".","5">>, <<"-","1">>,
           <<"t","r","u","e">>, <<"a","b","c">>, <<"4","2","x">> }

Ints == { IntVal(n, 0) : n \in SmallInts }
\* 2^64, 2^64 + 1, -2^64, -2^64 - 1: outside the signed 64-bit range
BigInts == { IntVal(n, w) : n \in {0, 1, -1}, w \in {1, -1} }

Keys == { <<"a">>, <<"b">>, <<"_","p">> }

\* An item yielded by iterating mapping.items(): a (k, v) tuple, or something
\* from which k and v cannot be taken.
Item(shape, k, v) == [shape |-> shape, k |-> k, v |-> v]
ItemVals == { IntVal(1, 0), IntVal(2, 0) }
Pairs == { Item("pair", k, v) : k \in {<<"a">>, <<"b">>}, v \in ItemVals }
Malformed == { Item(s, <<"a">>, IntVal(1, 0)) : s \in {"nontuple", "empty", "single", "unhashable"} }
Items == Pairs \cup Malformed

SeqsUpTo(S, n) == UNION { [1..k -> S] : k \in 0..n }

\* Key/value pairs of a dict: keys are unique.
UniqueKeys(d) == \A i, j \in 1..Len(d) : d[i][1] = d[j][1] => i = j
Dicts == { DictVal(d) : d \in { e \in SeqsUpTo({ <<k, v>> : k \in {<<"a">>, <<"b">>}, v \in ItemVals }, MaxItems) : UniqueKeys(e) } }

\* A non-dict value with the mapping protocol.  items_raises: the call of
\* .items() raises; iter_raises: iter() of the items raises; raise_at = k > 0:
\* fetching the k-th item raises (after k - 1 items were read).
Mappings == { [kind |-> "Mapping", items |-> its, items_raises |-> ir,
               iter_raises |-> tr, raise_at |-> ra] :
              its \in SeqsUpTo(Items, MaxItems), ir \in BOOLEAN, tr \in BOOLEAN,
              ra \in 0..MaxItems }

\* An attribute of an instance, as listed by dir(): name_is_str = FALSE when
\* dir() lists something that is not a str, getattr_raises when reading it raises.
Attr(name, v, isstr, raises) ==
    [name |-> name, v |-> v, name_is_str |-> isstr, getattr_raises |-> raises]
Leaf == [kind |-> "Instance", attrs |-> << Attr(<<"a">>, IntVal(1, 0), TRUE, FALSE) >>]
AttrVals == { IntVal(1, 0), Leaf }
Attrs == { Attr(k, v, TRUE, r) : k \in Keys, v \in AttrVals, r \in BOOLEAN }
           \cup { Attr(<<"a">>, IntVal(1, 0), FALSE, FALSE) }
SortedNames(a) == \A i, j \in 1..Len(a) : i < j => a[i].name /= a[j].name
Instances == { [kind |-> "Instance", attrs |-> a] :
               a \in { b \in SeqsUpTo(Attrs, MaxItems) : SortedNames(b) } }

Elems == SeqsUpTo({1}, MaxElems)
Containers == { SeqVal(k, e) : k \in {"List", "Tuple", "Set", "FrozenSet"}, e \in Elems }

Values ==
    {NoneVal} \cup { BoolVal(b) : b \in BOOLEAN } \cup Ints \cup BigInts
    \cup { FloatVal(h, 0) : h \in Halves } \cup { DecimalVal(h) : h \in {3, 84} }
    \cup { StrVal(s, TRUE) : s \in Texts } \cup { StrVal(<<"a">>, FALSE) }
    \cup { BytesVal(s, TRUE) : s \in Texts } \cup { BytesVal(<<>>, FALSE) }
    \cup Dicts \cup Mappings \cup Instances \cup Containers

(***************************************************************************)
(* Results.  ValResult<T> is Ok(T), a validation error holding one line    *)
(* error, or an internal error.                                            *)
(***************************************************************************)
Ok(x) == [tag |-> "Ok", val |-> x]
\* err_val_error!(input_value = InputValue::InputRef(v), kind = kind): one
\* line error echoing v, with no message of its own
err_val_error(v, kind) ==
    [tag |-> "LineErrors", kind |-> kind, input_value |-> v, message |-> "none"]
\* the same with message = Some(err.to_string()), the text of the host's error
err_val_error_message(v, kind) ==
    [tag |-> "LineErrors", kind |-> kind, input_value |-> v, message |-> "err.to_string()"]
\* .map_err(as_internal): a PyErr of the host becomes ValError::InternalErr
as_internal == [tag |-> "InternalErr"]
NoResult == [tag |-> "None"]

PyOk(x) == [ok |-> TRUE, val |-> x]
PyErr == [ok |-> FALSE]

(***************************************************************************)
(* The host's extraction and downcast operations, as the coercions use     *)
(* them.                                                                   *)
(***************************************************************************)
\* self.extract::<bool>(): only a bool
extract_bool(v) == IF v.kind = "Bool" THEN PyOk(v.b) ELSE PyErr

\* self.extract::<i64>(): __index__, then conversion to a signed 64-bit
\* integer, which overflows outside its range.  A bool is an int.
extract_i64(v) ==
    CASE v.kind = "Bool" -> PyOk(IF v.b THEN 1 ELSE 0)
      [] v.kind = "Int" -> IF v.wraps = 0 THEN PyOk(v.n) ELSE PyErr
      [] OTHER -> PyErr

\* self.extract::<f64>(): PyFloat_AsDouble: a float, or anything with
\* __float__ or __index__ (an int, a bool, a Decimal)
extract_f64(v) ==
    CASE v.kind = "Float" -> PyOk([h |-> v.h, wraps |-> v.wraps])
      [] v.kind = "Decimal" -> PyOk([h |-> v.h, wraps |-> 0])
      [] v.kind = "Int" -> PyOk([h |-> 2 * v.n, wraps |-> v.wraps])
      [] v.kind = "Bool" -> PyOk([h |-> IF v.b THEN 2 ELSE 0, wraps |-> 0])
      [] OTHER -> PyErr

\* py_str.extract() / v.extract::<String>(): the UTF-8 text of a str; fails
\* for a str that has no UTF-8 encoding, and for anything that is not a str
extract_String(v) ==
    IF v.kind = "Str" /\ v.utf8 THEN PyOk(v.s) ELSE PyErr

\* from_utf8(bytes.as_bytes())
from_utf8(v) == IF v.utf8 THEN PyOk(v.s) ELSE PyErr

\* self.cast_as::<T>().is_ok().  A value of kind "Mapping" stands for any
\* value that is no dict and passes the host's mapping check.
is_PyString(v) == v.kind = "Str"
is_PyBytes(v) == v.kind = "Bytes"
is_PyInt(v) == v.kind \in {"Int", "Bool"}
is_PyDict(v) == v.kind = "Dict"
is_PyMapping(v) == v.kind \in {"Dict", "Mapping"}
is_PyList(v) == v.kind = "List"
is_PyTuple(v) == v.kind = "Tuple"
is_PySet(v) == v.kind = "Set"
is_PyFrozenSet(v) == v.kind = "FrozenSet"

(***************************************************************************)
(* Text conversions.                                                       *)
(***************************************************************************)
DigitChars == <<"0", "1", "2", "3", "4", "5", "6", "7", "8", "9">>
IsDigit(c) == \E d \in 1..10 : DigitChars[d] = c
DigitOf(c) == (CHOOSE d \in 1..10 : DigitChars[d] = c) - 1

RECURSIVE NatToStr(_)
NatToStr(n) == IF n < 10 THEN << DigitChars[n + 1] >>
               ELSE NatToStr(n \div 10) \o << DigitChars[(n % 10) + 1] >>

\* int.to_string() for an i64
i64_to_string(n) == IF n < 0 THEN <<"-">> \o NatToStr(-n) ELSE NatToStr(n)

\* float.to_string() for an f64 that is a multiple of 1/2: the shortest
\* decimal text, with no fraction for a whole number
f64_to_string(f) ==
    LET a == IF f.h < 0 THEN -f.h ELSE f.h
        body == NatToStr(a \div 2) \o (IF a % 2 = 1 THEN <<".", "5">> ELSE <<>>)
    IN IF f.h < 0 THEN <<"-">> \o body ELSE body

RECURSIVE DigitsToNat(_)
DigitsToNat(ds) == IF ds = <<>> THEN 0
                   ELSE 10 * DigitsToNat(SubSeq(ds, 1, Len(ds) - 1)) + DigitOf(ds[Len(ds)])
AllDigits(ds) == \A i \in 1..Len(ds) : IsDigit(ds[i])
AllZeros(ds) == \A i \in 1..Len(ds) : ds[i] = "0"
Unsigned(s) == IF s /= <<>> /\ s[1] \in {"-", "+"} THEN Tail(s) ELSE s
Negative(s) == s /= <<>> /\ s[1] = "-"
DotAt(s) == IF \E i \in 1..Len(s) : s[i] = "." THEN CHOOSE i \in 1..Len(s) : s[i] = "." /\ \A j \in 1..(i - 1) : s[j] /= "." ELSE 0

\* str.parse::<f64>(): sign, digits, optional fraction; the whole text must be
\* consumed.  Values are multiples of 1/2 (fraction "", "0.." or "50.."), and
\* exponents and the words inf and nan are outside the texts of the model.
parse_f64(s) ==
    LET u == Unsigned(s)
        d == DotAt(u)
        ip == IF d = 0 THEN u ELSE SubSeq(u, 1, d - 1)
        fp == IF d = 0 THEN <<>> ELSE SubSeq(u, d + 1, Len(u))
        half == IF fp /= <<>> /\ fp[1] = "5" /\ AllZeros(Tail(fp)) THEN 1 ELSE 0
        mag == 2 * DigitsToNat(ip) + half
    IN IF AllDigits(ip) /\ AllDigits(fp) /\ Len(ip) + Len(fp) > 0
       THEN PyOk([h |-> IF Negative(s) THEN -mag ELSE mag, wraps |-> 0])
       ELSE PyErr

(***************************************************************************)
(* super::shared: str_as_bool, int_as_bool, str_as_int, float_as_int.      *)
(***************************************************************************)
str_as_int(v, s) ==
    LET u == Unsigned(s)
    IN IF u /= <<>> /\ AllDigits(u)
       THEN Ok(IF Negative(s) THEN -DigitsToNat(u) ELSE DigitsToNat(u))
       ELSE err_val_error(v, "IntParsing")

\* a whole float becomes that integer; one beyond the 64-bit range is pinned to
\* the nearest end of the range
float_as_int(v, f) ==
    IF f.h % 2 /= 0 THEN err_val_error(v, "IntParsing")
    ELSE IF f.wraps > 0 THEN Ok("i64::MAX")
    ELSE IF f.wraps < 0 THEN Ok("i64::MIN")
    ELSE Ok(f.h \div 2)

str_as_bool(v, s) ==
    CASE s \in { <<"t","r","u","e">>, <<"1">> } -> Ok(TRUE)
      [] s \in { <<"f","a","l","s","e">>, <<"0">> } -> Ok(FALSE)
      [] OTHER -> err_val_error(v, "BoolParsing")

int_as_bool(v, n) ==
    CASE n = 0 -> Ok(FALSE)
      [] n = 1 -> Ok(TRUE)
      [] OTHER -> err_val_error(v, "BoolParsing")

(***************************************************************************)
(* _maybe_as_string                                                        *)
(***************************************************************************)
\* Ok(Some(str)), Ok(None) or a line error of kind unicode_error
maybe_as_string(v, unicode_error) ==
    IF extract_String(v).ok THEN [tag |-> "Some", val |-> extract_String(v).val]
    ELSE IF is_PyBytes(v)
         THEN IF from_utf8(v).ok THEN [tag |-> "Some", val |-> from_utf8(v).val]
              ELSE err_val_error(v, unicode_error)
         ELSE [tag |-> "NoneStr"]

(***************************************************************************)
(* impl Input for PyAny: the scalar coercions.                             *)
(***************************************************************************)
strict_str(v) ==
    IF is_PyString(v)
    THEN IF extract_String(v).ok THEN Ok(extract_String(v).val) ELSE as_internal
    ELSE err_val_error(v, "StrType")

lax_str(v) ==
    IF is_PyString(v)
    THEN IF extract_String(v).ok THEN Ok(extract_String(v).val) ELSE as_internal
    ELSE IF is_PyBytes(v)
    THEN IF from_utf8(v).ok THEN Ok(from_utf8(v).val) ELSE err_val_error(v, "StrUnicode")
    ELSE IF extract_bool(v).ok
    THEN err_val_error(v, "StrType")
    ELSE IF is_PyInt(v)
    THEN IF extract_i64(v).ok THEN Ok(i64_to_string(extract_i64(v).val)) ELSE as_internal
    ELSE IF extract_f64(v).ok
    THEN Ok(f64_to_string(extract_f64(v).val))
    ELSE err_val_error(v, "StrType")

strict_bool(v) ==
    IF extract_bool(v).ok THEN Ok(extract_bool(v).val)
    ELSE err_val_error(v, "BoolType")

lax_bool(v) ==
    LET ms == maybe_as_string(v, "BoolParsing")
    IN IF extract_bool(v).ok THEN Ok(extract_bool(v).val)
       ELSE IF ms.tag = "LineErrors" THEN ms
       ELSE IF ms.tag = "Some" THEN str_as_bool(v, ms.val)
       ELSE IF extract_i64(v).ok THEN int_as_bool(v, extract_i64(v).val)
       ELSE err_val_error(v, "BoolType")

\* A bug: the bool check before the int check is left out.
strict_int_no_bool_check(v) ==
    IF extract_i64(v).ok THEN Ok(extract_i64(v).val)
    ELSE err_val_error(v, "IntType")

strict_int(v) ==
    IF extract_bool(v).ok THEN err_val_error(v, "IntType")
    ELSE IF extract_i64(v).ok THEN Ok(extract_i64(v).val)
    ELSE err_val_error(v, "IntType")

\* A bug: the float extraction is left out of the lax chain.
lax_float_no_extract(v) ==
    LET ms == maybe_as_string(v, "FloatParsing")
    IN IF ms.tag = "LineErrors" THEN ms
       ELSE IF ms.tag = "Some"
            THEN IF parse_f64(ms.val).ok THEN Ok(parse_f64(ms.val).val)
                 ELSE err_val_error(v, "FloatParsing")
       ELSE err_val_error(v, "FloatType")

lax_float(v) ==
    LET ms == maybe_as_string(v, "FloatParsing")
    IN IF extract_f64(v).ok THEN Ok(extract_f64(v).val)
       ELSE IF ms.tag = "LineErrors" THEN ms
       ELSE IF ms.tag = "Some"
            THEN IF parse_f64(ms.val).ok THEN Ok(parse_f64(ms.val).val)
                 ELSE err_val_error(v, "FloatParsing")
       ELSE err_val_error(v, "FloatType")

lax_int(v) ==
    LET ms == maybe_as_string(v, "IntParsing")
    IN IF extract_i64(v).ok THEN Ok(extract_i64(v).val)
       ELSE IF ms.tag = "LineErrors" THEN ms
       ELSE IF ms.tag = "Some" THEN str_as_int(v, ms.val)
       ELSE IF lax_float(v).tag = "Ok" THEN float_as_int(v, lax_float(v).val)
       ELSE err_val_error(v, "IntType")

strict_float(v) ==
    IF extract_bool(v).ok THEN err_val_error(v, "FloatType")
    ELSE IF extract_f64(v).ok THEN Ok(extract_f64(v).val)
    ELSE err_val_error(v, "FloatType")

(***************************************************************************)
(* Mappings.                                                               *)
(***************************************************************************)
HasKey(d, k) == \E i \in 1..Len(d) : d[i][1] = k

\* dict.set_item(k, v): replaces the value of a key already present (the key
\* keeps its position), appends otherwise
set_item(d, k, v) ==
    IF HasKey(d, k)
    THEN [i \in 1..Len(d) |-> IF d[i][1] = k THEN <<k, v>> ELSE d[i]]
    ELSE Append(d, <<k, v>>)

\* A bug: the items read before the failure are returned.
RECURSIVE mapping_loop_partial(_, _, _)
mapping_loop_partial(m, i, dict) ==
    IF i > Len(m.items) THEN PyOk(dict)
    ELSE IF m.raise_at = i \/ m.items[i].shape /= "pair" THEN PyOk(dict)
    ELSE mapping_loop_partial(m, i + 1, set_item(dict, m.items[i].k, m.items[i].v))

\* One pass of the loop of mapping_as_dict for the i-th item, then the rest.
RECURSIVE mapping_loop(_, _, _)
mapping_loop(m, i, dict) ==
    IF i > Len(m.items) THEN PyOk(dict)
    ELSE IF m.raise_at = i THEN PyErr                                \* r?
    ELSE IF m.items[i].shape = "nontuple" THEN PyErr                 \* .extract()?
    ELSE IF m.items[i].shape = "empty" THEN PyErr                    \* t.get_item(0)?
    ELSE IF m.items[i].shape = "single" THEN PyErr                   \* t.get_item(1)?
    ELSE IF m.items[i].shape = "unhashable" THEN PyErr               \* dict.set_item(k, v)?
    ELSE mapping_loop(m, i + 1, set_item(dict, m.items[i].k, m.items[i].v))

mapping_as_dict(m) ==
    IF m.items_raises THEN PyErr            \* mapping.items()?
    ELSE IF m.iter_raises THEN PyErr        \* seq.iter()?
    ELSE mapping_loop(m, 1, <<>>)

starts_with_underscore(name) == name /= <<>> /\ name[1] = "_"

\* instance.dir(): the attributes of an instance; any other value of the
\* model lists private names only
dir(v) ==
    IF v.kind = "Instance" THEN v.attrs
    ELSE << Attr(<<"_","p">>, IntVal(1, 0), TRUE, FALSE) >>

RECURSIVE instance_loop(_, _, _)
instance_loop(attrs, i, dict) ==
    IF i > Len(attrs) THEN PyOk(dict)
    ELSE IF ~attrs[i].name_is_str THEN PyErr                          \* k_any.extract()?
    ELSE IF starts_with_underscore(attrs[i].name) THEN instance_loop(attrs, i + 1, dict)
    ELSE IF attrs[i].getattr_raises THEN PyErr                        \* instance.getattr(k_any)?
    ELSE instance_loop(attrs, i + 1, set_item(dict, attrs[i].name, attrs[i].v))

instance_as_dict(v) == instance_loop(dir(v), 1, <<>>)

\* GenericMapping / GenericSequence: the variant and what it holds
GenericMapping(items) == [variant |-> "PyDict", items |-> items]
GenericSequence(v) == [variant |-> v.kind, elems |-> v.elems]

strict_dict(v) ==
    IF is_PyDict(v) THEN Ok(GenericMapping(v.items))
    ELSE err_val_error(v, "DictType")

\* A call of lax_dict: its result, how often instance_as_dict ran, and the
\* try_instance of every frame, outermost first.
Frame(res, n, cs) == [res |-> res, reflections |-> n, calls |-> cs]

\* A bug: reflection is tried whatever the caller passed, and stays enabled
\* in the nested call.
RECURSIVE lax_dict_call_always(_, _)
lax_dict_call_always(v, try_instance) ==
    IF is_PyDict(v) THEN Frame(Ok(GenericMapping(v.items)), 0, <<try_instance>>)
    ELSE IF is_PyMapping(v)
    THEN IF mapping_as_dict(v).ok
         THEN Frame(Ok(GenericMapping(mapping_as_dict(v).val)), 0, <<try_instance>>)
         ELSE Frame(err_val_error_message(v, "DictFromMapping"), 0, <<try_instance>>)
    ELSE IF instance_as_dict(v).ok
         THEN LET inner == lax_dict_call_always(DictVal(instance_as_dict(v).val), TRUE)
              IN Frame(inner.res, 1 + inner.reflections, <<try_instance>> \o inner.calls)
         ELSE Frame(err_val_error_message(v, "DictFromObject"), 1, <<try_instance>>)

RECURSIVE lax_dict_call(_, _)
lax_dict_call(v, try_instance) ==
    IF is_PyDict(v) THEN Frame(Ok(GenericMapping(v.items)), 0, <<try_instance>>)
    ELSE IF is_PyMapping(v)
    THEN IF mapping_as_dict(v).ok
         THEN Frame(Ok(GenericMapping(mapping_as_dict(v).val)), 0, <<try_instance>>)
         ELSE Frame(err_val_error_message(v, "DictFromMapping"), 0, <<try_instance>>)
    ELSE IF try_instance
    THEN IF instance_as_dict(v).ok
         THEN LET inner == lax_dict_call(DictVal(instance_as_dict(v).val), FALSE)
              IN Frame(inner.res, 1 + inner.reflections, <<try_instance>> \o inner.calls)
         ELSE Frame(err_val_error_message(v, "DictFromObject"), 1, <<try_instance>>)
    ELSE Frame(err_val_error(v, "DictType"), 0, <<try_instance>>)

lax_dict(v, try_instance) == lax_dict_call(v, try_instance).res

(***************************************************************************)
(* Sequences and sets.                                                     *)
(***************************************************************************)
strict_list(v) ==
    IF is_PyList(v) THEN Ok(GenericSequence(v))
    ELSE err_val_error(v, "ListType")

lax_list(v) ==
    IF is_PyList(v) THEN Ok(GenericSequence(v))
    ELSE IF is_PyTuple(v) THEN Ok(GenericSequence(v))
    ELSE IF is_PySet(v) THEN Ok(GenericSequence(v))
    ELSE IF is_PyFrozenSet(v) THEN Ok(GenericSequence(v))
    ELSE err_val_error(v, "ListType")

\* A bug: a frozenset passes the strict set check.
strict_set_any_set(v) ==
    IF is_PySet(v) \/ is_PyFrozenSet(v) THEN Ok(GenericSequence(v))
    ELSE err_val_error(v, "SetType")

strict_set(v) ==
    IF is_PySet(v) THEN Ok(GenericSequence(v))
    ELSE err_val_error(v, "SetType")

lax_set(v) ==
    IF is_PySet(v) THEN Ok(GenericSequence(v))
    ELSE IF is_PyList(v) THEN Ok(GenericSequence(v))
    ELSE IF is_PyTuple(v) THEN Ok(GenericSequence(v))
    ELSE IF is_PyFrozenSet(v) THEN Ok(GenericSequence(v))
    ELSE err_val_error(v, "SetType")

(***************************************************************************)
(* The coercions as a state machine: each step is one call of one          *)
(* coercion on some host value.                                            *)
(***************************************************************************)
RenderIdle == /\ line_errors = <<>>
              /\ report = NoResult
              /\ text = <<>>
              /\ written = NoResult


Idle ==
    /\ op = "none"
    /\ input = NoneVal
    /\ flag = FALSE
    /\ out = NoResult
    /\ reflections = 0
    /\ calls = <<>>

Call(name, v, res) ==
    /\ op' = name
    /\ input' = v
    /\ out' = res
    /\ flag' = FALSE
    /\ reflections' = 0
    /\ calls' = <<>>
    /\ UNCHANGED <<line_errors, report, text, written>>

Init == Idle /\ RenderIdle

StrictStr == op = "none" /\ \E v \in Values : Call("strict_str", v, strict_str(v))
LaxStr == op = "none" /\ \E v \in Values : Call("lax_str", v, lax_str(v))
StrictBool == op = "none" /\ \E v \in Values : Call("strict_bool", v, strict_bool(v))
LaxBool == op = "none" /\ \E v \in Values : Call("lax_bool", v, lax_bool(v))
StrictInt == op = "none" /\ \E v \in Values : Call("strict_int", v, strict_int(v))
LaxInt == op = "none" /\ \E v \in Values : Call("lax_int", v, lax_int(v))
StrictFloat == op = "none" /\ \E v \in Values : Call("strict_float", v, strict_float(v))
LaxFloat == op = "none" /\ \E v \in Values : Call("lax_float", v, lax_float(v))
StrictDict == op = "none" /\ \E v \in Values : Call("strict_dict", v, strict_dict(v))
StrictList == op = "none" /\ \E v \in Values : Call("strict_list", v, strict_list(v))
LaxList == op = "none" /\ \E v \in Values : Call("lax_list", v, lax_list(v))
StrictSet == op = "none" /\ \E v \in Values : Call("strict_set", v, strict_set(v))
LaxSet == op = "none" /\ \E v \in Values : Call("lax_set", v, lax_set(v))

LaxDict ==
    op = "none" /\ \E v \in Values, try_instance \in BOOLEAN :
        /\ op' = "lax_dict"
        /\ input' = v
        /\ flag' = try_instance
        /\ out' = lax_dict(v, try_instance)
        /\ reflections' = lax_dict_call(v, try_instance).reflections
        /\ calls' = lax_dict_call(v, try_instance).calls
        /\ UNCHANGED <<line_errors, report, text, written>>

\* The call is over: the engine keeps nothing between calls.
Return ==
    /\ op /= "none"
    /\ op' = "none"
    /\ input' = NoneVal
    /\ flag' = FALSE
    /\ out' = NoResult
    /\ reflections' = 0
    /\ calls' = <<>>
    /\ UNCHANGED <<line_errors, report, text, written>>

Next ==
    \/ StrictFloat \/ LaxFloat \/ StrictInt \/ LaxInt
    \/ LaxStr \/ StrictStr \/ StrictBool \/ LaxBool
    \/ StrictDict \/ LaxDict
    \/ StrictList \/ LaxList \/ StrictSet \/ LaxSet
    \/ Return

Spec == Init /\ [][Next]_vars

(***************************************************************************)
(* Rendering (src/errors/validation_exception.rs).                         *)
(*                                                                         *)
(* A character of a text is [i, w]: its position in the original text and  *)
(* the number of bytes of its UTF-8 encoding.  The three dots written by   *)
(* the truncation have position 0.                                         *)
(***************************************************************************)
MaxPrefix == 27   \* single-byte characters before the multi-byte ones
MaxSuffix == 27   \* single-byte characters after them
MaxMulti == 2     \* multi-byte characters of a text
MaxErrors == 2    \* line errors of a ValidationError

TruncateOver == 50   \* $value.len() > 50
KeepHead == 25       \* &$value[0..25]
KeepTail == 24       \* &$value[$value.len() - 24..]

Char(i, w) == [i |-> i, w |-> w]
Dots == << Char(0, 1), Char(0, 1), Char(0, 1) >>

\* p single-byte characters, m characters of w bytes, s single-byte characters
Family(p, m, w, s) ==
    [j \in 1..(p + m + s) |-> Char(j, IF j > p /\ j <= p + m THEN w ELSE 1)]

TextFamily ==
    { Family(p, 0, 1, s) : p \in 0..MaxPrefix, s \in 0..MaxSuffix }
    \cup { Family(p, m, w, s) : p \in 0..MaxPrefix, m \in 1..MaxMulti, w \in 2..4, s \in 0..MaxSuffix }

\* byte offset of the j-th character (j = Len + 1: the length in bytes)
RECURSIVE offset(_, _)
offset(value, j) == IF j <= 1 THEN 0 ELSE offset(value, j - 1) + value[j - 1].w

\* value.len(): the length in bytes
len(value) == offset(value, Len(value) + 1)

\* value.is_char_boundary(idx)
is_char_boundary(value, idx) == \E j \in 1..(Len(value) + 1) : offset(value, j) = idx

CharAt(value, idx) == CHOOSE j \in 1..(Len(value) + 1) : offset(value, j) = idx

\* &value[a..b]: panics unless a and b are character boundaries
slice(value, a, b) ==
    IF a <= b /\ is_char_boundary(value, a) /\ is_char_boundary(value, b)
    THEN Ok(SubSeq(value, CharAt(value, a), CharAt(value, b) - 1))
    ELSE [tag |-> "Panic"]

\* truncate_input_value!: what follows ", input_value=", or a panic
truncate_input_value(value) ==
    IF len(value) > TruncateOver
    THEN LET head == slice(value, 0, KeepHead)
             tail == slice(value, len(value) - KeepTail, len(value))
         IN IF head.tag = "Panic" \/ tail.tag = "Panic" THEN [tag |-> "Panic"]
            ELSE Ok(head.val \o Dots \o tail.val)
    ELSE Ok(value)

(***************************************************************************)
(* Line errors.  context is "empty", "ok" (it formats) or "fails" (its     *)
(* Display returns fmt::Error); repr_ok tells whether repr() of the echoed *)
(* value succeeds; echo is the text of the echoed value.                   *)
(***************************************************************************)
PyLineError(location, message, context, echo, repr_ok) ==
    [kind |-> "IntType", location |-> location, message |-> message,
     context |-> context, echo |-> echo, repr_ok |-> repr_ok]

ShortText == Family(2, 0, 1, 0)
LongText == Family(KeepHead, 0, 1, KeepTail + 2)       \* 51 single-byte characters
SplitText == Family(0, KeepHead + 1, 2, 0)            \* 26 two-byte characters
EchoTexts == { ShortText, LongText, SplitText }

LineErrorSet ==
    { PyLineError(<<>>, "none", c, t, TRUE) : c \in {"empty", "ok", "fails"}, t \in EchoTexts }
    \cup { PyLineError(l, m, "empty", ShortText, r) :
             l \in { <<>>, <<"a", "0">> }, m \in {"none", "custom"}, r \in BOOLEAN }

Title == "Model"

\* self.kind(): the name of the kind
kind_name(le) == le.kind

\* self.raw_message(): the override, or the default message of the kind
raw_message(le) ==
    IF le.message /= "none" THEN le.message ELSE "default message of " \o le.kind

\* self.message(): the raw message, rendered with the context when there is one
message(le) == [raw |-> raw_message(le), rendered_with |-> le.context]

\* repr(input_value), or input_value.to_string() when it fails: the repr of
\* the model is the text between quotes
Quote == Char(0, 1)
input_str(le) == IF le.repr_ok THEN <<Quote>> \o le.echo \o <<Quote>> ELSE le.echo

\* PyLineError::pretty: Ok(the rendered line), Err(fmt::Error) or a panic
pretty(le, py) ==
    IF le.context = "fails" THEN [tag |-> "Err"]      \* write!(output, ", context={}", ..)?
    ELSE LET shown == truncate_input_value(IF py THEN input_str(le) ELSE le.echo)
         IN IF shown.tag = "Panic" THEN shown
            ELSE Ok([location |-> le.location,
                     message |-> message(le),
                     kind |-> kind_name(le),
                     context |-> le.context,
                     input_value |-> shown.val,
                     input_type |-> IF py THEN "type" ELSE "none"])

Placeholder == [placeholder |-> "[error formatting line errors: {}]"]

\* .map(|i| i.pretty(py)).collect::<Result<Vec<_>, _>>(): the lines rendered
\* in order up to the first one that fails
RECURSIVE collect(_, _, _, _)
collect(les, i, py, acc) ==
    IF i > Len(les) THEN Ok(acc)
    ELSE LET r == pretty(les[i], py)
         IN IF r.tag = "Ok" THEN collect(les, i + 1, py, Append(acc, r.val))
            ELSE r

Header(les) ==
    [count |-> Len(les), plural |-> IF Len(les) = 1 THEN "" ELSE "s", title |-> Title]

\* A bug: every line is rendered and a failing one gets its own placeholder.
display_per_line(les, py) ==
    IF \E i \in 1..Len(les) : pretty(les[i], py).tag = "Panic" THEN [tag |-> "Panic"]
    ELSE Ok([header |-> Header(les),
             body |-> [i \in 1..Len(les) |->
                          IF pretty(les[i], py).tag = "Ok" THEN pretty(les[i], py).val
                          ELSE Placeholder]])

\* ValidationError::display: the header and the lines of the body (joined by
\* "\n" in the program), or a panic
display(les, py) ==
    LET lines == collect(les, 1, py, <<>>)
    IN CASE lines.tag = "Panic" -> lines
         [] lines.tag = "Err" -> Ok([header |-> Header(les), body |-> <<Placeholder>>])
         [] OTHER -> Ok([header |-> Header(les), body |-> lines.val])

(***************************************************************************)
(* Rendering as a state machine: a ValidationError is built from some line *)
(* errors and rendered once, by Display or by __repr__ / __str__.          *)
(***************************************************************************)
InitRender ==
    /\ Idle
    /\ line_errors \in SeqsUpTo(LineErrorSet, MaxErrors)
    /\ report = NoResult
    /\ text = <<>>
    /\ written = NoResult

\* impl fmt::Display: self.display(None)
Display ==
    /\ op = "none"
    /\ op' = "fmt"
    /\ report' = display(line_errors, FALSE)
    /\ UNCHANGED <<input, flag, out, reflections, calls, line_errors, text, written>>

\* __repr__ and __str__: self.display(Some(py))
Repr ==
    /\ op = "none"
    /\ op' = "__repr__"
    /\ report' = display(line_errors, TRUE)
    /\ UNCHANGED <<input, flag, out, reflections, calls, line_errors, text, written>>

NextRender == Display \/ Repr

SpecRender == InitRender /\ [][NextRender]_vars

(***************************************************************************)
(* The truncation alone, on every text of the family.                      *)
(***************************************************************************)
InitTruncate ==
    /\ Idle
    /\ line_errors = <<>>
    /\ report = NoResult
    /\ text \in TextFamily
    /\ written = NoResult

Truncate ==
    /\ written = NoResult
    /\ written' = truncate_input_value(text)
    /\ UNCHANGED <<op, input, flag, out, reflections, calls, line_errors, report, text>>

NextTruncate == Truncate

SpecTruncate == InitTruncate /\ [][NextTruncate]_vars

(***************************************************************************)
(* Properties of the rendering.                                            *)
(***************************************************************************)
Rendered == op \in {"fmt", "__repr__"}
WithPy == op = "__repr__"
Line(i) == pretty(line_errors[i], WithPy)

\* C3 (as stated): when rendering some line error fails, the report still
\* has the header and the rendered text of every other line error in order;
\* only the failing line is a placeholder, so the body has n entries.
C3_PlaceholderPerLine ==
    (/\ Rendered
     /\ \E i \in 1..Len(line_errors) : Line(i).tag = "Err"
     /\ \A i \in 1..Len(line_errors) : Line(i).tag /= "Panic") =>
        /\ report.tag = "Ok"
        /\ report.val.header = Header(line_errors)
        /\ Len(report.val.body) = Len(line_errors)
        /\ \A i \in 1..Len(line_errors) :
               report.val.body[i] = IF Line(i).tag = "Ok" THEN Line(i).val ELSE Placeholder

\* The first line error whose rendering does not succeed, 0 when all do.
FirstFailing ==
    IF \E i \in 1..Len(line_errors) : Line(i).tag /= "Ok"
    THEN CHOOSE i \in 1..Len(line_errors) :
             Line(i).tag /= "Ok" /\ \A j \in 1..(i - 1) : Line(j).tag = "Ok"
    ELSE 0

\* C3 (amended): the line errors are rendered in order up to the first one
\* that fails.  When none fails the report has the header and the n rendered
\* lines in their order; when that one fails with a formatting error the
\* report has the header and a body of exactly one diagnostic placeholder,
\* which replaces all n lines; when its truncation panics (C5) there is no
\* report.
C3_PlaceholderForWholeBody ==
    Rendered =>
        CASE FirstFailing = 0 ->
                /\ report.tag = "Ok"
                /\ report.val.header = Header(line_errors)
                /\ report.val.body = [i \in 1..Len(line_errors) |-> Line(i).val]
          [] FirstFailing > 0 /\ Line(FirstFailing).tag = "Err" ->
                /\ report.tag = "Ok"
                /\ report.val.header = Header(line_errors)
                /\ report.val.body = <<Placeholder>>
          [] OTHER -> report.tag = "Panic"

\* two line errors, the first fails to format, the second would render: the
\* body is the placeholder alone
C3_Witness ==
    /\ Rendered
    /\ Len(line_errors) = 2
    /\ Line(1).tag = "Err"
    /\ Line(2).tag = "Ok"
    /\ report = Ok([header |-> [count |-> 2, plural |-> "s", title |-> Title],
                    body |-> <<Placeholder>>])

\* C4 (as stated): in a rendered line error, a text of at most 50 characters
\* is shown in full and a longer one as its first 25 characters, "..." and
\* its last 24 characters, counted in characters.
C4_TruncateByCharacters ==
    written.tag = "Ok" =>
        written = IF Len(text) <= TruncateOver THEN Ok(text)
                  ELSE Ok(SubSeq(text, 1, KeepHead) \o Dots
                          \o SubSeq(text, Len(text) - KeepTail + 1, Len(text)))

\* C5 (as stated): rendering never panics, whatever the echoed texts are.
C5_RenderNeverPanics ==
    Rendered => report.tag /= "Panic"

(***************************************************************************)
(* Properties of the coercions.                                            *)
(***************************************************************************)
\* r is one line error of this kind that echoes v
IsLineError(r, kind, v) ==
    r.tag = "LineErrors" /\ r.kind = kind /\ r.input_value = v

\* The number a host value stands for, as an f64 of the model.
AsF64(v) ==
    CASE v.kind = "Float" -> [h |-> v.h, wraps |-> v.wraps]
      [] v.kind = "Decimal" -> [h |-> v.h, wraps |-> 0]
      [] v.kind = "Int" -> [h |-> 2 * v.n, wraps |-> v.wraps]

\* C1 (as stated): for a host boolean, strict_int and lax_int fail with
\* IntType and strict_float and lax_float fail with FloatType; none returns a
\* number.
C1_BoolNeverNumeric ==
    input.kind = "Bool" =>
        /\ op \in {"strict_int", "lax_int"} => IsLineError(out, "IntType", input)
        /\ op \in {"strict_float", "lax_float"} => IsLineError(out, "FloatType", input)

\* C1 (amended): for a host boolean, strict_int fails with IntType and
\* strict_float with FloatType; lax_int returns 1 for True and 0 for False and
\* lax_float returns 1.0 for True and 0.0 for False.
C1_BoolStrictRejectedLaxNumeric ==
    input.kind = "Bool" =>
        /\ op = "strict_int" => IsLineError(out, "IntType", input)
        /\ op = "strict_float" => IsLineError(out, "FloatType", input)
        /\ op = "lax_int" => out = Ok(IF input.b THEN 1 ELSE 0)
        /\ op = "lax_float" => out = Ok([h |-> IF input.b THEN 2 ELSE 0, wraps |-> 0])

C1_Witness ==
    /\ op = "lax_int"
    /\ input = BoolVal(TRUE)
    /\ out = Ok(1)

\* The strict coercion of each target type, the kind of its type error and
\* the host type that is the target type.
StrictOps == {"strict_str", "strict_bool", "strict_int", "strict_float",
              "strict_dict", "strict_list", "strict_set"}
TypeKind(o) ==
    CASE o = "strict_str" -> "StrType" [] o = "strict_bool" -> "BoolType"
      [] o = "strict_int" -> "IntType" [] o = "strict_float" -> "FloatType"
      [] o = "strict_dict" -> "DictType" [] o = "strict_list" -> "ListType"
      [] o = "strict_set" -> "SetType"
ExactType(o) ==
    CASE o = "strict_str" -> "Str" [] o = "strict_bool" -> "Bool"
      [] o = "strict_int" -> "Int" [] o = "strict_float" -> "Float"
      [] o = "strict_dict" -> "Dict" [] o = "strict_list" -> "List"
      [] o = "strict_set" -> "Set"

\* The value of a strict coercion that succeeded, when the input has exactly
\* the target type.
Unchanged(o, v) ==
    CASE o = "strict_str" -> v.s
      [] o = "strict_bool" -> v.b
      [] o = "strict_int" -> v.n
      [] o = "strict_float" -> AsF64(v)
      [] o = "strict_dict" -> GenericMapping(v.items)
      [] o \in {"strict_list", "strict_set"} -> GenericSequence(v)

C6_LaxStrChain ==
    op = "lax_str" =>
        CASE input.kind = "Str" -> out.tag = "Ok" /\ out.val = input.s
          [] input.kind = "Bytes" ->
                IF input.utf8 THEN out.tag = "Ok" /\ out.val = input.s
                ELSE IsLineError(out, "StrUnicode", input)
          [] input.kind = "Bool" -> IsLineError(out, "StrType", input)
          [] input.kind = "Int" ->
                /\ out.tag = "Ok"
                /\ Len(out.val) > 0
                /\ \A i \in 1..Len(out.val) : IsDigit(out.val[i]) \/ (i = 1 /\ out.val[i] = "-")
                /\ input = IntVal(42, 0) => out.val = <<"4", "2">>
          [] input.kind \in {"Float", "Decimal"} ->
                /\ out.tag = "Ok"
                /\ input.h = 3 => out.val = <<"1", ".", "5">>
          [] OTHER -> IsLineError(out, "StrType", input)

\* C7: a call of lax_dict runs instance_as_dict at most once, and only when
\* try_instance was passed and the value is neither a dict nor a mapping; the
\* nested call is made with try_instance = false and is the last one; with
\* try_instance = false a value that is no mapping fails with DictType.
C7_ReflectionAtMostOnce ==
    op = "lax_dict" =>
        /\ reflections <= 1
        /\ reflections = 1 => flag /\ input.kind \notin {"Dict", "Mapping"}
        /\ Len(calls) <= 2
        /\ calls[1] = flag
        /\ Len(calls) = 2 => reflections = 1 /\ calls[2] = FALSE
        /\ (~flag /\ input.kind \notin {"Dict", "Mapping"}) =>
               IsLineError(out, "DictType", input)

\* an instance whose attribute is itself an instance: reflected once, the
\* inner instance is kept as it is
C7_Witness ==
    /\ op = "lax_dict"
    /\ flag
    /\ input.kind = "Instance"
    /\ reflections = 1
    /\ calls = <<TRUE, FALSE>>
    /\ out = Ok(GenericMapping(<< <<(<<"a">>), Leaf>> >>))

\* Reading or iterating the items of a mapping raises at some point.
Raises(m) ==
    \/ m.items_raises
    \/ m.iter_raises
    \/ \E i \in 1..Len(m.items) : m.raise_at = i \/ m.items[i].shape /= "pair"

\* C8: when reading or iterating the items of a non-dict mapping raises at
\* any point, lax_dict returns one line error of kind DictFromMapping that
\* echoes the original input, never a mapping.
C8_MappingFailureIsWhole ==
    (op = "lax_dict" /\ input.kind = "Mapping" /\ Raises(input)) =>
        IsLineError(out, "DictFromMapping", input)

\* the second item raises after the first was read
C8_Witness ==
    /\ op = "lax_dict"
    /\ input.kind = "Mapping"
    /\ Len(input.items) = 2
    /\ input.items[1].shape = "pair"
    /\ ~input.items_raises /\ ~input.iter_raises
    /\ input.raise_at = 2
    /\ IsLineError(out, "DictFromMapping", input)

\* C9 (as stated): the outcome of every coercion is a typed value or a line
\* error, never an internal error.
C9_NoInternalError ==
    op /= "none" => out.tag \in {"Ok", "LineErrors"}

\* C10: when a strict coercion succeeds, the lax coercion of the same target
\* type succeeds on the same value with the same result (lax_dict with
\* try_instance true and false).
C10_LaxExtendsStrict ==
    (op \in StrictOps /\ out.tag = "Ok") =>
        CASE op = "strict_str" -> lax_str(input) = out
          [] op = "strict_bool" -> lax_bool(input) = out
          [] op = "strict_int" -> lax_int(input) = out
          [] op = "strict_float" -> lax_float(input) = out
          [] op = "strict_dict" -> lax_dict(input, TRUE) = out /\ lax_dict(input, FALSE) = out
          [] op = "strict_list" -> lax_list(input) = out
          [] op = "strict_set" -> lax_set(input) = out

C10_Witness ==
    /\ op = "strict_float"
    /\ input = FloatVal(3, 0)
    /\ out = Ok([h |-> 3, wraps |-> 0])
    /\ lax_float(input) = out

=============================================================================
